---- MODULE Spec2Model ----
(***************************************************************************)
(* Model of src/app_main.cpp: the frame acquisition, preprocessing and     *)
(* pipeline-orchestration loop of the hand gesture recognition firmware.   *)
(*                                                                         *)
(* app_main is a single sequential task.  Its position is pc; one action   *)
(* models one statement (or one external call with the test that follows   *)
(* it).  The camera driver, the JPEG decoder, the two heap pools and the   *)
(* two inference models are external: their results are drawn with \E.     *)
(***************************************************************************)
EXTENDS Integers, Sequences, FiniteSets, TLC

(* ------------------------------ bounds -------------------------------- *)
\* main-loop iterations explored (frame is an unbounded int in the code)
MaxFrame == 2
\* small decoded widths/heights explored: 1..MaxDim
MaxDim == 3
\* a wide decoded side, larger than the sensor's configured 240
WideSide == 320
\* longest Detection / GestureResult sequence an inference call returns
MaxDet == 2
\* the largest decoded side the index arithmetic is checked for
HugeSide == 4096

(* ------------------------- program constants -------------------------- *)
\* const int target = 224;
target == 224
\* config.frame_size = FRAMESIZE_240X240
FrameSide == 240
\* for (int i = 0; i < 5; ++i)
WarmupFrames == 5
\* vTaskDelay(pdMS_TO_TICKS(50)) in the warm-up loop
WarmupDelayMs == 50
\* vTaskDelay(pdMS_TO_TICKS(100)) after a failed capture
CaptureFailDelayMs == 100
\* vTaskDelay(pdMS_TO_TICKS(100)) after a failed allocation
AllocFailDelayMs == 100
\* vTaskDelay(pdMS_TO_TICKS(300)) after an empty detection
NoHandDelayMs == 300
\* vTaskDelay(pdMS_TO_TICKS(2000)) after a classified frame
SteadyDelayMs == 2000

\* the null pointer
NULL == "NULL"
\* config.fb_count = 1: the driver owns one frame buffer
FrameBuffers == {"fb"}
\* the block sw_decode_jpeg allocates for the decoded pixels
RGB_BUF == "rgb_buf"
\* the block crop_resize_224 allocates for the 224x224 image
IMG_BUF == "img_buf"
HeapBlocks == {RGB_BUF, IMG_BUF}

\* widths and heights the decoder may report (non-positive ones are failures)
Dims == (-1 .. MaxDim) \cup {target, FrameSide, WideSide}

VARIABLES
    pc,          \* position of app_main
    i,           \* warm-up loop counter
    frame,       \* int frame
    fb,          \* camera_fb_t *fb
    lent,        \* driver state: frame buffers handed out and not yet returned
    rgb,         \* dl::image::img_t rgb  (data, width, height)
    img224,      \* dl::image::img_t img224
    heap,        \* state of each heap block: "none", "live" or "freed"
    det_results, \* std::list det_results: [live, n]
    cls_results, \* std::list cls_results: [live, n]
    k,           \* number of cls_results already logged
    models,      \* TRUE once hand_detect and gesture are constructed
    events,      \* calls made since the current iteration began
    ub           \* TRUE once a call was made on a dangling or unowned buffer

vars == <<pc, i, frame, fb, lent, rgb, img224, heap, det_results, cls_results,
          k, models, events, ub>>

Ev(op, arg) == [op |-> op, arg |-> arg]

\* number of events of the current iteration with the given operation
Count(op) == Cardinality({n \in DOMAIN events : events[n].op = op})

\* positions (1-based) of the events with the given operation
Pos(op) == {n \in DOMAIN events : events[n].op = op}

NoImage == [data |-> NULL, width |-> 0, height |-> 0]
NoList == [live |-> FALSE, n |-> 0]

(* ------------------------ crop_resize_224 ----------------------------- *)
\* C++ int division: the quotient truncates toward zero
CDiv(a, b) == IF a >= 0 THEN a \div b ELSE -((-a) \div b)

\* a bug: the comparison is inverted, so crop is the longer side
CropLongerSide(w, h) == IF w > h THEN w ELSE h

\* int crop = (src.width < src.height) ? src.width : src.height;
Crop(w, h) == IF w < h THEN w ELSE h
\* int x0 = (src.width - crop) / 2;
X0(w, h) == CDiv(w - Crop(w, h), 2)
\* a bug: the operands of the subtraction are swapped
Y0Swapped(w, h) == CDiv(Crop(w, h) - h, 2)

\* int y0 = (src.height - crop) / 2;
Y0(w, h) == CDiv(h - Crop(w, h), 2)
\* a bug: the scale divides by target - 1, as if aligning the last pixels
SYAlignCorners(y, w, h) == Y0(w, h) + CDiv(y * Crop(w, h), target - 1)

\* int sy = y0 + (y * crop) / target;
SY(y, w, h) == Y0(w, h) + CDiv(y * Crop(w, h), target)
\* a bug: the sample column is rounded up instead of down
SXRoundedUp(x, w, h) == X0(w, h) + CDiv(x * Crop(w, h) + target - 1, target)

\* int sx = x0 + (x * crop) / target;
SX(x, w, h) == X0(w, h) + CDiv(x * Crop(w, h), target)
\* int sidx = (sy * src.width + sx) * 3;   int didx = (y * target + x) * 3;
Sidx(sx, sy, w) == (sy * w + sx) * 3

\* a bug: the parentheses of the destination index are missing
DidxNoParentheses(x, y) == y * target + x * 3

Didx(x, y) == (y * target + x) * 3

\* dst_u8[didx + c] = src_u8[sidx + c] for c = 0, 1, 2
Channels == 0 .. 2

\* for (x < target): the indices of one destination row y, sy computed once
\* per row and sx, sidx, didx once per pixel, as the loop nest does
CopyRow(y, w, h) ==
    LET sy == SY(y, w, h)
    IN  [x \in 0 .. target - 1 |->
            LET sx == SX(x, w, h)
            IN  [didx |-> Didx(x, y), sidx |-> Sidx(sx, sy, w)]]

\* a bug: no second attempt after the SPIRAM pool refuses
crop_resize_224_NoFallback(src, spiram_ok, internal_ok) ==
    LET first == Ev("malloc_spiram", IF spiram_ok THEN 1 ELSE 0)
        data == IF spiram_ok THEN IMG_BUF ELSE NULL
        loop == IF data = NULL
                THEN <<>>
                ELSE <<Ev("read_pixels", target * target),
                       Ev("write_pixels", target * target)>>
    IN  [dst |-> [data |-> data, width |-> target, height |-> target],
         calls |-> <<first>> \o loop]

\* The whole call: the two allocation attempts, then the pixel loop, which
\* runs target * target times and copies 3 bytes each time.
\* spiram_ok / internal_ok: whether heap_caps_malloc would succeed in the
\* SPIRAM pool / in the general 8-bit pool.
crop_resize_224(src, spiram_ok, internal_ok) ==
    LET first == Ev("malloc_spiram", IF spiram_ok THEN 1 ELSE 0)
        second == Ev("malloc_8bit", IF internal_ok THEN 1 ELSE 0)
        allocs == IF spiram_ok THEN <<first>> ELSE <<first, second>>
        data == IF spiram_ok \/ internal_ok THEN IMG_BUF ELSE NULL
        loop == IF data = NULL
                THEN <<>>
                ELSE <<Ev("read_pixels", target * target),
                       Ev("write_pixels", target * target)>>
    IN  [dst |-> [data |-> data, width |-> target, height |-> target],
         calls |-> allocs \o loop]

(* --------------------------- collaborators ---------------------------- *)
\* esp_camera_fb_get: a free buffer, or NULL
FbGetResults == {NULL} \cup (FrameBuffers \ lent)

\* esp_camera_fb_return(p)
FbReturn(p) ==
    /\ lent' = lent \ {p}
    /\ events' = Append(events, Ev(IF p = NULL THEN "fb_return_null" ELSE "fb_return", 0))
    /\ ub' = (ub \/ p \notin lent)

\* heap_caps_free(p) for a block p
HeapFree(p, h) == [h EXCEPT ![p] = "freed"]


(* ------------------------------- app_main ----------------------------- *)
Init ==
    /\ pc = "init_camera"
    /\ i = 0
    /\ frame = 0
    /\ fb = NULL
    /\ lent = {}
    /\ rgb = NoImage
    /\ img224 = NoImage
    /\ heap = [b \in HeapBlocks |-> "none"]
    /\ det_results = NoList
    /\ cls_results = NoList
    /\ k = 0
    /\ models = FALSE
    /\ events = <<>>
    /\ ub = FALSE

\* a bug: the result of init_camera() is not checked
init_camera_unchecked ==
    /\ pc = "init_camera"
    /\ \E ok \in BOOLEAN :
          events' = Append(events, Ev("esp_camera_init", IF ok THEN 1 ELSE 0))
    /\ pc' = "warm_get"
    /\ UNCHANGED <<i, frame, fb, lent, rgb, img224, heap, det_results,
                   cls_results, k, models, ub>>

\* ESP_ERROR_CHECK(init_camera()): abort() unless esp_camera_init returns ESP_OK
init_camera ==
    /\ pc = "init_camera"
    /\ \E ok \in BOOLEAN :
          /\ pc' = IF ok THEN "warm_get" ELSE "aborted"
          /\ events' = Append(events, Ev("esp_camera_init", IF ok THEN 1 ELSE 0))
    /\ UNCHANGED <<i, frame, fb, lent, rgb, img224, heap, det_results,
                   cls_results, k, models, ub>>

\* for (i < 5) { camera_fb_t *fb = esp_camera_fb_get();
WarmGet ==
    /\ pc = "warm_get"
    /\ i < WarmupFrames
    /\ \E p \in FbGetResults :
          /\ fb' = p
          /\ lent' = IF p = NULL THEN lent ELSE lent \cup {p}
          /\ events' = <<Ev(IF p = NULL THEN "fb_get_null" ELSE "fb_get", 0)>>
    /\ pc' = "warm_return"
    /\ UNCHANGED <<i, frame, rgb, img224, heap, det_results, cls_results, k,
                   models, ub>>

\* if (fb) esp_camera_fb_return(fb);
WarmReturn ==
    /\ pc = "warm_return"
    /\ IF fb # NULL
       THEN FbReturn(fb)
       ELSE UNCHANGED <<lent, events, ub>>
    /\ pc' = "warm_delay"
    /\ UNCHANGED <<i, frame, fb, rgb, img224, heap, det_results, cls_results,
                   k, models>>

\* a bug: only a successful warm-up capture advances the counter
WarmDelayCountsSuccessOnly ==
    /\ pc = "warm_delay"
    /\ events' = Append(events, Ev("delay", WarmupDelayMs))
    /\ i' = IF fb # NULL THEN i + 1 ELSE i
    /\ fb' = NULL
    /\ pc' = "warm_get"
    /\ UNCHANGED <<frame, lent, rgb, img224, heap, det_results, cls_results,
                   k, models, ub>>

\* vTaskDelay(pdMS_TO_TICKS(50)); ++i; fb goes out of scope
WarmDelay ==
    /\ pc = "warm_delay"
    /\ events' = Append(events, Ev("delay", WarmupDelayMs))
    /\ i' = i + 1
    /\ fb' = NULL
    /\ pc' = "warm_get"
    /\ UNCHANGED <<frame, lent, rgb, img224, heap, det_results, cls_results,
                   k, models, ub>>

\* loop exit; new HandDetect(); new HandGestureRecognizer(...); int frame = 0;
Construct ==
    /\ pc = "warm_get"
    /\ ~(i < WarmupFrames)
    /\ models' = TRUE
    /\ frame' = 0
    /\ pc' = "acquire"
    /\ UNCHANGED <<i, fb, lent, rgb, img224, heap, det_results, cls_results,
                   k, events, ub>>

\* a bug: frame++ comes after the capture test, so it counts captured frames
AcquireCountsCapturedOnly ==
    /\ pc = "acquire"
    /\ frame < MaxFrame
    /\ \E p \in FbGetResults :
          /\ fb' = p
          /\ frame' = IF p = NULL THEN frame ELSE frame + 1
          /\ lent' = IF p = NULL THEN lent ELSE lent \cup {p}
          /\ events' = <<Ev(IF p = NULL THEN "fb_get_null" ELSE "fb_get", 0)>>
          /\ pc' = IF p = NULL THEN "capture_failed" ELSE "decode"
    /\ UNCHANGED <<i, rgb, img224, heap, det_results, cls_results, k, models, ub>>

\* while (true) { frame++; camera_fb_t *fb = esp_camera_fb_get();
Acquire ==
    /\ pc = "acquire"
    /\ frame < MaxFrame
    /\ frame' = frame + 1
    /\ \E p \in FbGetResults :
          /\ fb' = p
          /\ lent' = IF p = NULL THEN lent ELSE lent \cup {p}
          /\ events' = <<Ev(IF p = NULL THEN "fb_get_null" ELSE "fb_get", 0)>>
          /\ pc' = IF p = NULL THEN "capture_failed" ELSE "decode"
    /\ UNCHANGED <<i, rgb, img224, heap, det_results, cls_results, k, models, ub>>

\* a bug: a failed capture is retried at once, without the delay
CaptureFailedNoDelay ==
    /\ pc = "capture_failed"
    /\ pc' = "next_iter"
    /\ UNCHANGED <<i, frame, fb, lent, rgb, img224, heap, det_results,
                   cls_results, k, models, events, ub>>

\* a bug: a failed capture is treated as fatal
CaptureFailedFatal ==
    /\ pc = "capture_failed"
    /\ pc' = "aborted"
    /\ UNCHANGED <<i, frame, fb, lent, rgb, img224, heap, det_results,
                   cls_results, k, models, events, ub>>

\* if (!fb) { ESP_LOGE(...); vTaskDelay(pdMS_TO_TICKS(100)); continue; }
CaptureFailed ==
    /\ pc = "capture_failed"
    /\ events' = Append(events, Ev("delay", CaptureFailDelayMs))
    /\ pc' = "next_iter"
    /\ UNCHANGED <<i, frame, fb, lent, rgb, img224, heap, det_results,
                   cls_results, k, models, ub>>

\* auto rgb = dl::image::sw_decode_jpeg(jpeg, RGB888): reads fb->buf and
\* returns any image: a failure has null data or a non-positive side
Decode ==
    /\ pc = "decode"
    /\ \E d \in {NULL, RGB_BUF}, w \in Dims, h \in Dims :
          /\ rgb' = [data |-> d, width |-> w, height |-> h]
          /\ heap' = [heap EXCEPT ![RGB_BUF] = IF d = NULL THEN "none" ELSE "live"]
    /\ events' = Append(events, Ev("decode", 0))
    /\ ub' = (ub \/ fb \notin lent)
    /\ pc' = "fb_return"
    /\ UNCHANGED <<i, frame, fb, lent, img224, det_results, cls_results, k, models>>

\* a bug: the frame is not handed back after decoding
ReturnFrameLeak ==
    /\ pc = "fb_return"
    /\ pc' = "check_decode"
    /\ UNCHANGED <<i, frame, fb, lent, rgb, img224, heap, det_results,
                   cls_results, k, models, events, ub>>

\* esp_camera_fb_return(fb);
ReturnFrame ==
    /\ pc = "fb_return"
    /\ FbReturn(fb)
    /\ pc' = "check_decode"
    /\ UNCHANGED <<i, frame, fb, rgb, img224, heap, det_results, cls_results,
                   k, models>>

\* a bug: the test forgets the dimensions
DecodeBadDataOnly(im) == im.data = NULL

\* the test of line 137
DecodeBad(im) == im.data = NULL \/ im.width <= 0 \/ im.height <= 0

\* a bug: the decode-failure path continues without freeing rgb.data
DecodeFailedLeak ==
    /\ pc = "check_decode"
    /\ DecodeBad(rgb)
    /\ pc' = "next_iter"
    /\ UNCHANGED <<i, frame, fb, lent, rgb, img224, heap, det_results,
                   cls_results, k, models, events, ub>>

\* if (!rgb.data || ...) { ESP_LOGE; if (rgb.data) heap_caps_free(rgb.data); continue; }
DecodeFailed ==
    /\ pc = "check_decode"
    /\ DecodeBad(rgb)
    /\ IF rgb.data # NULL
       THEN /\ heap' = HeapFree(rgb.data, heap)
            /\ events' = Append(events, Ev("free_rgb", 0))
            /\ ub' = (ub \/ heap[rgb.data] # "live")
       ELSE UNCHANGED <<heap, events, ub>>
    /\ pc' = "next_iter"
    /\ UNCHANGED <<i, frame, fb, lent, rgb, img224, det_results, cls_results,
                   k, models>>

\* auto img224 = crop_resize_224(rgb);
Preprocess ==
    /\ pc = "check_decode"
    /\ ~DecodeBad(rgb)
    /\ \E spiram_ok \in BOOLEAN, internal_ok \in BOOLEAN :
          LET r == crop_resize_224(rgb, spiram_ok, internal_ok)
          IN  /\ img224' = r.dst
              /\ events' = events \o <<Ev("crop_resize_224", 0)>> \o r.calls
              /\ heap' = IF r.dst.data = NULL
                         THEN heap
                         ELSE [heap EXCEPT ![r.dst.data] = "live"]
              /\ ub' = (ub \/ (r.dst.data # NULL /\ heap[rgb.data] # "live"))
    /\ pc' = "free_rgb"
    /\ UNCHANGED <<i, frame, fb, lent, rgb, det_results, cls_results, k, models>>

\* a bug: rgb.data is not freed after preprocessing
FreeRawSkipped ==
    /\ pc = "free_rgb"
    /\ pc' = "check_img"
    /\ UNCHANGED <<i, frame, fb, lent, rgb, img224, heap, det_results,
                   cls_results, k, models, events, ub>>

\* a bug: rgb.data is freed only when preprocessing succeeded
FreeRawOnSuccessOnly ==
    /\ pc = "free_rgb"
    /\ IF img224.data # NULL
       THEN /\ heap' = HeapFree(rgb.data, heap)
            /\ events' = Append(events, Ev("free_rgb", 0))
            /\ ub' = (ub \/ heap[rgb.data] # "live")
       ELSE UNCHANGED <<heap, events, ub>>
    /\ pc' = "check_img"
    /\ UNCHANGED <<i, frame, fb, lent, rgb, img224, det_results, cls_results,
                   k, models>>

\* heap_caps_free(rgb.data);
FreeRaw ==
    /\ pc = "free_rgb"
    /\ heap' = HeapFree(rgb.data, heap)
    /\ events' = Append(events, Ev("free_rgb", 0))
    /\ ub' = (ub \/ heap[rgb.data] # "live")
    /\ pc' = "check_img"
    /\ UNCHANGED <<i, frame, fb, lent, rgb, img224, det_results, cls_results,
                   k, models>>

\* a bug: the allocation-failure path continues without the delay
AllocFailedNoDelay ==
    /\ pc = "check_img"
    /\ img224.data = NULL
    /\ pc' = "next_iter"
    /\ UNCHANGED <<i, frame, fb, lent, rgb, img224, heap, det_results,
                   cls_results, k, models, events, ub>>

\* if (!img224.data) { vTaskDelay(pdMS_TO_TICKS(100)); continue; }
AllocFailed ==
    /\ pc = "check_img"
    /\ img224.data = NULL
    /\ events' = Append(events, Ev("delay", AllocFailDelayMs))
    /\ pc' = "next_iter"
    /\ UNCHANGED <<i, frame, fb, lent, rgb, img224, heap, det_results,
                   cls_results, k, models, ub>>

\* auto det_results = hand_detect->run(img224);
Detect ==
    /\ pc = "check_img"
    /\ img224.data # NULL
    /\ \E n \in 0 .. MaxDet : det_results' = [live |-> TRUE, n |-> n]
    /\ events' = Append(events, Ev("detect", 0))
    /\ ub' = (ub \/ heap[img224.data] # "live")
    /\ pc' = "check_det"
    /\ UNCHANGED <<i, frame, fb, lent, rgb, img224, heap, cls_results, k, models>>

\* a bug: the empty-detection path does not free img224.data
NoHandLeak ==
    /\ pc = "check_det"
    /\ det_results.n = 0
    /\ events' = Append(events, Ev("warn_no_hand", frame))
    /\ pc' = "no_hand_delay"
    /\ UNCHANGED <<i, frame, fb, lent, rgb, img224, heap, det_results,
                   cls_results, k, models, ub>>

\* if (det_results.empty()) { ESP_LOGW("[%d] No hand detected", frame);
\*                            heap_caps_free(img224.data);
NoHand ==
    /\ pc = "check_det"
    /\ det_results.n = 0
    /\ heap' = HeapFree(img224.data, heap)
    /\ events' = events \o <<Ev("warn_no_hand", frame), Ev("free_img", 0)>>
    /\ ub' = (ub \/ heap[img224.data] # "live")
    /\ pc' = "no_hand_delay"
    /\ UNCHANGED <<i, frame, fb, lent, rgb, img224, det_results, cls_results,
                   k, models>>

\* a bug: the empty-detection path waits as long as a classified frame does
NoHandDelaySteady ==
    /\ pc = "no_hand_delay"
    /\ events' = Append(events, Ev("delay", SteadyDelayMs))
    /\ pc' = "next_iter"
    /\ UNCHANGED <<i, frame, fb, lent, rgb, img224, heap, det_results,
                   cls_results, k, models, ub>>

\*                            vTaskDelay(pdMS_TO_TICKS(300)); continue; }
NoHandDelay ==
    /\ pc = "no_hand_delay"
    /\ events' = Append(events, Ev("delay", NoHandDelayMs))
    /\ pc' = "next_iter"
    /\ UNCHANGED <<i, frame, fb, lent, rgb, img224, heap, det_results,
                   cls_results, k, models, ub>>

\* a bug: img224.data is freed right after recognize, before the results
\* are logged
RecognizeFreesImage ==
    /\ pc = "check_det"
    /\ det_results.n # 0
    /\ \E n \in 0 .. MaxDet : cls_results' = [live |-> TRUE, n |-> n]
    /\ events' = events \o <<Ev("recognize", 0), Ev("free_img", 0)>>
    /\ heap' = HeapFree(img224.data, heap)
    /\ ub' = (ub \/ heap[img224.data] # "live")
    /\ k' = 0
    /\ pc' = "report"
    /\ UNCHANGED <<i, frame, fb, lent, rgb, img224, det_results, models>>

\* auto cls_results = gesture->recognize(img224, det_results);
Recognize ==
    /\ pc = "check_det"
    /\ det_results.n # 0
    /\ \E n \in 0 .. MaxDet : cls_results' = [live |-> TRUE, n |-> n]
    /\ events' = Append(events, Ev("recognize", 0))
    /\ ub' = (ub \/ heap[img224.data] # "live")
    /\ k' = 0
    /\ pc' = "report"
    /\ UNCHANGED <<i, frame, fb, lent, rgb, img224, heap, det_results, models>>

\* for (auto &res : cls_results) ESP_LOGI("[%d] Gesture: %s score=%.2f", frame, ...)
Report ==
    /\ pc = "report"
    /\ k < cls_results.n
    /\ events' = Append(events, Ev("report", frame))
    /\ k' = k + 1
    /\ UNCHANGED <<pc, i, frame, fb, lent, rgb, img224, heap, det_results,
                   cls_results, models, ub>>

\* heap_caps_free(img224.data);
FreeImage ==
    /\ pc = "report"
    /\ ~(k < cls_results.n)
    /\ heap' = HeapFree(img224.data, heap)
    /\ events' = Append(events, Ev("free_img", 0))
    /\ ub' = (ub \/ heap[img224.data] # "live")
    /\ pc' = "pace"
    /\ UNCHANGED <<i, frame, fb, lent, rgb, img224, det_results, cls_results,
                   k, models>>

\* vTaskDelay(pdMS_TO_TICKS(2000));
Pace ==
    /\ pc = "pace"
    /\ events' = Append(events, Ev("delay", SteadyDelayMs))
    /\ pc' = "next_iter"
    /\ UNCHANGED <<i, frame, fb, lent, rgb, img224, heap, det_results,
                   cls_results, k, models, ub>>

\* continue / end of the loop body: the locals of the body go out of scope
\* (the two std::list are destroyed) and control returns to while (true)
NextIter ==
    /\ pc = "next_iter"
    /\ fb' = NULL
    /\ rgb' = NoImage
    /\ img224' = NoImage
    /\ det_results' = NoList
    /\ cls_results' = NoList
    /\ k' = 0
    /\ pc' = "acquire"
    /\ UNCHANGED <<i, frame, lent, heap, models, events, ub>>

Next ==
    \/ init_camera
    \/ WarmGet
    \/ WarmReturn
    \/ WarmDelay
    \/ Construct
    \/ Acquire
    \/ CaptureFailed
    \/ Decode
    \/ ReturnFrame
    \/ DecodeFailed
    \/ Preprocess
    \/ FreeRaw
    \/ AllocFailed
    \/ Detect
    \/ NoHand
    \/ NoHandDelay
    \/ Recognize
    \/ Report
    \/ FreeImage
    \/ Pace
    \/ NextIter

Spec == Init /\ [][Next]_vars

\* app_main is the only code of the task and never waits on another task:
\* when every external call and every vTaskDelay returns, its next statement
\* is executed
LiveSpec == Spec /\ WF_vars(Next)

(* ---------------- crop_resize_224 on its own inputs ------------------- *)
\* the sides of the valid sources crop_resize_224 is applied to
CropDims == (1 .. MaxDim) \cup {target, FrameSide, WideSide, HugeSide}

\* app_main in its first iteration, right after esp_camera_fb_return, holding
\* any successfully decoded image
InitCrop ==
    /\ pc = "check_decode"
    /\ i = WarmupFrames
    /\ frame = 1
    /\ fb \in FrameBuffers
    /\ lent = {}
    /\ \E w \in CropDims, h \in CropDims :
          rgb = [data |-> RGB_BUF, width |-> w, height |-> h]
    /\ img224 = NoImage
    /\ heap = [b \in HeapBlocks |-> IF b = RGB_BUF THEN "live" ELSE "none"]
    /\ det_results = NoList
    /\ cls_results = NoList
    /\ k = 0
    /\ models = TRUE
    /\ events = <<Ev("fb_get", 0), Ev("decode", 0), Ev("fb_return", 0)>>
    /\ ub = FALSE

NextCrop ==
    \/ Preprocess
    \/ FreeRaw

SpecCrop == InitCrop /\ [][NextCrop]_vars

(* ============================== properties ============================ *)
\* the position of the only event with the given operation
PosOf(op) == CHOOSE n \in Pos(op) : TRUE

\* app_main is about to call esp_camera_fb_get (or to leave the warm-up loop)
AtGet == pc \in {"warm_get", "acquire"}

\* C1: every frame esp_camera_fb_get hands out is given back to
\* esp_camera_fb_return exactly once, after it was obtained and before the
\* next esp_camera_fb_get; no frame is returned twice and NULL is never
\* returned.
C1_FrameReturnedExactlyOnce ==
    /\ Count("fb_return_null") = 0
    /\ Count("fb_get") <= 1
    /\ Count("fb_return") <= Count("fb_get")
    /\ Count("fb_return") = 1 => PosOf("fb_get") < PosOf("fb_return")
    /\ lent # {} <=> (Count("fb_get") = 1 /\ Count("fb_return") = 0)
    /\ lent \subseteq {fb}
    /\ (AtGet \/ pc = "next_iter") =>
          /\ lent = {}
          /\ Count("fb_return") = Count("fb_get")

C1_Witness ==
    /\ pc = "acquire"
    /\ frame = 1
    /\ Count("fb_get") = 1
    /\ Count("decode") = 1
    /\ Count("fb_return") = 1
    /\ lent = {}

\* C2: whenever the main loop is about to call esp_camera_fb_get, the
\* orchestrator holds no buffer: no frame is lent out by the driver and
\* neither the RawImage block nor the NormalizedImage block is live.
C2_NoBufferHeldAtAcquire ==
    pc = "acquire" =>
        /\ lent = {}
        /\ \A b \in HeapBlocks : heap[b] # "live"

C2_Witness ==
    /\ pc = "acquire"
    /\ frame = 1
    /\ Count("decode") = 1
    /\ Count("crop_resize_224") = 0
    /\ heap[RGB_BUF] = "freed"

\* C3: when the decoder returns null data or a non-positive width or height,
\* the iteration returns the frame, frees rgb.data if and only if it is
\* non-null, and goes to the next iteration without calling crop_resize_224,
\* hand_detect->run or gesture->recognize.
C3_DecodeFailure ==
    (/\ Count("decode") = 1
     /\ pc # "acquire"
     /\ (rgb.data = NULL \/ rgb.width <= 0 \/ rgb.height <= 0)) =>
        /\ pc \in {"fb_return", "check_decode", "next_iter"}
        /\ Count("crop_resize_224") = 0
        /\ Count("detect") = 0
        /\ Count("recognize") = 0
        /\ pc = "next_iter" =>
              /\ Count("fb_return") = 1
              /\ Count("free_rgb") = (IF rgb.data # NULL THEN 1 ELSE 0)
              /\ heap[RGB_BUF] # "live"
              /\ lent = {}

C3_Witness ==
    /\ pc = "next_iter"
    /\ Count("decode") = 1
    /\ rgb.data # NULL
    /\ rgb.width <= 0
    /\ Count("free_rgb") = 1

\* C4: when hand_detect->run returns an empty list, the iteration frees
\* img224.data exactly once, never calls gesture->recognize, logs no gesture
\* result, and continues with the next iteration.
C4_EmptyDetection ==
    (det_results.live /\ det_results.n = 0) =>
        /\ pc \in {"check_det", "no_hand_delay", "next_iter"}
        /\ Count("recognize") = 0
        /\ Count("report") = 0
        /\ ~cls_results.live
        /\ pc # "check_det" =>
              /\ Count("free_img") = 1
              /\ heap[IMG_BUF] = "freed"

C4_Witness ==
    /\ pc = "next_iter"
    /\ det_results.live
    /\ det_results.n = 0
    /\ Count("free_img") = 1

\* the delays applied so far in the current iteration, in order
Delays == SelectSeq(events, LAMBDA e : e.op = "delay")

\* C5 as stated: the delay applied after an empty detection is longer than
\* the 2000 ms applied after a classified frame.
C5_EmptyDelayLongerThanSteady ==
    (Count("warn_no_hand") = 1 /\ Len(Delays) = 1) => Delays[1].arg > 2000

\* C5, amended: the delay applied after an empty detection is 300 ms, which
\* is shorter than the 2000 ms applied after a classified frame; each of the
\* two outcomes applies exactly that one delay.
C5_EmptyDelayShorterThanSteady ==
    /\ (Count("warn_no_hand") = 1 /\ pc \in {"next_iter", "acquire"}) =>
          /\ Len(Delays) = 1
          /\ Delays[1].arg = 300
          /\ Delays[1].arg < 2000
    /\ (Count("recognize") = 1 /\ pc \in {"next_iter", "acquire"}) =>
          /\ Len(Delays) = 1
          /\ Delays[1].arg = 2000

C5_Witness ==
    /\ pc = "next_iter"
    /\ Count("warn_no_hand") = 1
    /\ Len(Delays) = 1

\* the events from the call of crop_resize_224 up to the free of rgb.data
CropToFree ==
    SubSeq(events, PosOf("crop_resize_224") + 1, PosOf("free_rgb") - 1)

\* C6: for a successfully decoded frame, rgb.data is freed exactly once,
\* right after crop_resize_224 returns, whether or not preprocessing
\* succeeded; it is never freed twice, never freed before crop_resize_224 has
\* read it, and never read after it was freed.
C6_RawFreedOnceAfterCrop ==
    (/\ Count("decode") = 1
     /\ pc # "acquire"
     /\ rgb.data # NULL /\ rgb.width > 0 /\ rgb.height > 0) =>
        /\ Count("free_rgb") <= 1
        /\ Count("crop_resize_224") <= 1
        /\ heap[RGB_BUF] = (IF Count("free_rgb") = 1 THEN "freed" ELSE "live")
        /\ pc \notin {"fb_return", "check_decode", "free_rgb"} =>
              Count("free_rgb") = 1
        /\ Count("free_rgb") = 1 =>
              /\ Count("crop_resize_224") = 1
              /\ PosOf("crop_resize_224") < PosOf("free_rgb")
              /\ \A n \in DOMAIN CropToFree :
                    CropToFree[n].op \in {"malloc_spiram", "malloc_8bit",
                                          "read_pixels", "write_pixels"}
              /\ \A n \in Pos("read_pixels") : n < PosOf("free_rgb")
        /\ ~ub

C6_Witness ==
    /\ pc = "check_img"
    /\ img224.data = NULL
    /\ rgb.data # NULL
    /\ Count("crop_resize_224") = 1
    /\ Count("free_rgb") = 1
    /\ heap[RGB_BUF] = "freed"

\* the allocation attempts of the crop_resize_224 call, in order
Mallocs == SelectSeq(events, LAMBDA e : e.op \in {"malloc_spiram", "malloc_8bit"})

\* C7: crop_resize_224 tries the SPIRAM pool first and the general pool only
\* after the SPIRAM attempt failed; when the second attempt succeeds the call
\* returns a fully written image; when both fail it returns null data and
\* reads and writes no pixel.
C7_AllocFallback ==
    Count("crop_resize_224") = 1 =>
        /\ Len(Mallocs) \in {1, 2}
        /\ Mallocs[1].op = "malloc_spiram"
        /\ events[PosOf("crop_resize_224") + 1].op = "malloc_spiram"
        /\ Len(Mallocs) = 2 <=> Mallocs[1].arg = 0
        /\ Len(Mallocs) = 2 =>
              /\ Mallocs[2].op = "malloc_8bit"
              /\ PosOf("malloc_8bit") = PosOf("malloc_spiram") + 1
        /\ pc # "acquire" =>
              /\ img224.data = NULL <=> (\A n \in DOMAIN Mallocs : Mallocs[n].arg = 0)
              /\ img224.width = 224 /\ img224.height = 224
        /\ (\E n \in DOMAIN Mallocs : Mallocs[n].arg = 1) =>
              /\ Count("read_pixels") = 1
              /\ Count("write_pixels") = 1
              /\ events[PosOf("write_pixels")].arg = 224 * 224
        /\ (\A n \in DOMAIN Mallocs : Mallocs[n].arg = 0) =>
              /\ Len(Mallocs) = 2
              /\ Count("read_pixels") = 0
              /\ Count("write_pixels") = 0

C7_Witness ==
    /\ pc = "free_rgb"
    /\ Len(Mallocs) = 2
    /\ Mallocs[1].arg = 0
    /\ Mallocs[2].arg = 1
    /\ img224.data # NULL
    /\ Count("write_pixels") = 1

\* C8: when both allocations fail, the orchestrator frees rgb.data, does not
\* free the null img224.data, calls neither hand_detect->run nor
\* gesture->recognize, waits 100 ms and goes to the next iteration.
C8_AllocFailure ==
    (Count("crop_resize_224") = 1 /\ pc # "acquire" /\ img224.data = NULL) =>
        /\ pc \in {"free_rgb", "check_img", "next_iter"}
        /\ Count("free_img") = 0
        /\ Count("detect") = 0
        /\ Count("recognize") = 0
        /\ heap[IMG_BUF] # "live"
        /\ pc = "next_iter" =>
              /\ Count("free_rgb") = 1
              /\ heap[RGB_BUF] = "freed"
              /\ Len(Delays) = 1
              /\ Delays[1].arg = 100
              /\ events[Len(events)].op = "delay"

C8_Witness ==
    /\ pc = "next_iter"
    /\ Count("crop_resize_224") = 1
    /\ img224.data = NULL
    /\ Len(Delays) = 1

\* crop_resize_224 has been called on rgb, which is still in scope
Cropped == Count("crop_resize_224") = 1 /\ pc # "acquire"

\* C9: for every source with width >= 1 and height >= 1, wider than tall or
\* taller than wide, the crop square (crop = min(width, height), origin
\* (x0, y0)) lies inside the source: 0 <= x0, x0 + crop <= width, 0 <= y0,
\* y0 + crop <= height.
C9_CropInsideSource ==
    (Cropped /\ rgb.width >= 1 /\ rgb.height >= 1) =>
        LET w == rgb.width
            h == rgb.height
        IN  /\ Crop(w, h) <= w
            /\ Crop(w, h) <= h
            /\ Crop(w, h) \in {w, h}
            /\ 0 <= X0(w, h)
            /\ X0(w, h) + Crop(w, h) <= w
            /\ 0 <= Y0(w, h)
            /\ Y0(w, h) + Crop(w, h) <= h

C9_Witness ==
    /\ Cropped
    /\ rgb.width > rgb.height
    /\ rgb.height >= 1
    /\ X0(rgb.width, rgb.height) > 0
    /\ Y0(rgb.width, rgb.height) = 0

\* the columns and the rows crop_resize_224 samples for a w x h source, over
\* all destination pixels (x, y) of the for loops
SampledColumns(w, h) == {SX(x, w, h) : x \in 0 .. target - 1}
SampledRows(w, h) == {SY(y, w, h) : y \in 0 .. target - 1}

\* C10: for every valid source and every destination pixel (x, y) of the
\* 224 x 224 grid, the sampled coordinate satisfies 0 <= sx < width and
\* 0 <= sy < height, and the three bytes read at sidx .. sidx + 2 lie inside
\* the source buffer of width * height * 3 bytes.
C10_ReadsInsideSource ==
    (pc = "free_rgb" /\ Count("read_pixels") = 1) =>
        LET w == rgb.width
            h == rgb.height
        IN  /\ \A x \in 0 .. 223 : 0 <= SX(x, w, h) /\ SX(x, w, h) < w
            /\ \A y \in 0 .. 223 : 0 <= SY(y, w, h) /\ SY(y, w, h) < h
            /\ \A sy \in SampledRows(w, h) : \A sx \in SampledColumns(w, h) :
                  \A c \in 0 .. 2 :
                     /\ 0 <= Sidx(sx, sy, w) + c
                     /\ Sidx(sx, sy, w) + c < w * h * 3

C10_Witness ==
    /\ pc = "free_rgb"
    /\ Count("read_pixels") = 1
    /\ rgb.width = 240
    /\ rgb.height < 224
    /\ SX(223, rgb.width, rgb.height) > SX(0, rgb.width, rgb.height)

\* crop_resize_224 has returned an allocated image and rgb is not yet freed
CropSucceeded == pc = "free_rgb" /\ img224.data # NULL

\* C11: when allocation succeeds the result is 224 x 224 with 3 bytes per
\* pixel whatever the aspect ratio of the source; the loop nest writes each
\* of the 224 * 224 * 3 destination bytes exactly once, the bytes of pixel
\* (x, y) from the source pixel (x0 + (x * crop) / 224, y0 + (y * crop) / 224)
\* with floor division; no destination byte is left unwritten.
\* (Exactly once: taken in loop order, the writes start at byte 0, each pixel
\* writes the 3 bytes that follow the previous pixel's, and the last pixel
\* ends at byte 224 * 224 * 3 - 1.)
C11_OutputFullyWritten ==
    CropSucceeded =>
        LET w == rgb.width
            h == rgb.height
            crop == IF w <= h THEN w ELSE h
            x0 == (w - crop) \div 2
            y0 == (h - crop) \div 2
        IN  /\ img224.width = 224
            /\ img224.height = 224
            /\ events[PosOf("write_pixels")].arg = 224 * 224
            /\ Channels = {0, 1, 2}
            /\ \A y \in 0 .. 223 :
                  LET row == CopyRow(y, w, h)
                  IN  /\ DOMAIN row = 0 .. 223
                      /\ row[0].didx = y * 224 * 3
                      /\ y = 223 => row[223].didx + 2 = 224 * 224 * 3 - 1
                      /\ \A x \in 1 .. 223 : row[x].didx = row[x - 1].didx + 3
                      /\ \A x \in 0 .. 223 :
                            row[x].sidx =
                               ((y0 + (y * crop) \div 224) * w
                                + x0 + (x * crop) \div 224) * 3

C11_Witness ==
    /\ CropSucceeded
    /\ rgb.width = 320
    /\ rgb.height = 240
    /\ Count("write_pixels") = 1
    /\ CopyRow(223, rgb.width, rgb.height)[223].didx = 224 * 224 * 3 - 3

\* C12: for a 224 x 224 source the output buffer equals the input buffer
\* byte for byte: the two buffers have the same size and every destination
\* byte didx + c is copied from the source byte with the same index.
C12_IdentityOnTargetSize ==
    (CropSucceeded /\ rgb.width = 224 /\ rgb.height = 224) =>
        /\ rgb.width * rgb.height * 3 = img224.width * img224.height * 3
        /\ \A y \in 0 .. 223 :
              LET row == CopyRow(y, rgb.width, rgb.height)
              IN  \A x \in 0 .. 223 : \A c \in Channels :
                     row[x].sidx + c = row[x].didx + c

C12_Witness ==
    /\ CropSucceeded
    /\ rgb.width = 224
    /\ rgb.height = 224
    /\ CopyRow(223, 224, 224)[223].sidx = 224 * 224 * 3 - 3

\* the values a signed 32-bit int holds without overflow, sign bit clear
FitsNonNegInt32(v) == 0 <= v /\ v <= 2147483647

\* C20: for source sides from 1 to 4096, every intermediate of the index
\* arithmetic of crop_resize_224 (width - crop, height - crop, y * crop,
\* x * crop, sy * width + sx, sidx, sidx + 2, y * target + x, didx + 2,
\* target * target * 3) is non-negative and fits in a signed 32-bit int.
C20_IndexArithmeticFitsInt32 ==
    (CropSucceeded /\ rgb.width \in 1 .. 4096 /\ rgb.height \in 1 .. 4096) =>
        LET w == rgb.width
            h == rgb.height
        IN  /\ FitsNonNegInt32(w - Crop(w, h))
            /\ FitsNonNegInt32(h - Crop(w, h))
            /\ FitsNonNegInt32(target * target * 3)
            /\ \A y \in 0 .. 223 :
                  FitsNonNegInt32(y * Crop(w, h)) /\ FitsNonNegInt32(SY(y, w, h))
            /\ \A x \in 0 .. 223 :
                  FitsNonNegInt32(x * Crop(w, h)) /\ FitsNonNegInt32(SX(x, w, h))
            /\ \A sy \in SampledRows(w, h) : \A sx \in SampledColumns(w, h) :
                  /\ FitsNonNegInt32(sy * w)
                  /\ FitsNonNegInt32(sy * w + sx)
                  /\ FitsNonNegInt32(Sidx(sx, sy, w))
                  /\ FitsNonNegInt32(Sidx(sx, sy, w) + 2)
            /\ \A y \in 0 .. 223 : \A x \in 0 .. 223 :
                  /\ FitsNonNegInt32(y * target + x)
                  /\ FitsNonNegInt32(Didx(x, y))
                  /\ FitsNonNegInt32(Didx(x, y) + 2)

C20_Witness ==
    /\ CropSucceeded
    /\ rgb.width = 4096
    /\ rgb.height = 4096
    /\ Sidx(SX(223, 4096, 4096), SY(223, 4096, 4096), 4096) > 224 * 224 * 3

\* C13: the main loop has no terminal state: from every point of the loop
\* body, whatever the outcome of the iteration (capture failure, decode
\* failure, allocation failure, empty detection, classification), control
\* comes back to the top of the loop, and from the top of the loop
\* esp_camera_fb_get is called again (within the iterations explored).
C13_LoopAlwaysContinues ==
    /\ (models /\ pc # "acquire") ~> (pc = "acquire")
    /\ (pc = "acquire" /\ frame < MaxFrame) ~> (pc \in {"decode", "capture_failed"})

C13_Witness ==
    /\ pc = "acquire"
    /\ frame = 1
    /\ frame < MaxFrame
    /\ Count("crop_resize_224") = 1
    /\ Count("write_pixels") = 0
    /\ Len(Delays) = 1

\* esp_camera_init has returned an error
InitFailed ==
    /\ Count("esp_camera_init") = 1
    /\ events[PosOf("esp_camera_init")].arg = 0

\* C14: when camera initialization fails the process aborts before any
\* frame is acquired: no warm-up acquisition, no construction of the two
\* models, no main-loop iteration, and nothing runs afterwards; a failed
\* camera initialization is the only way into the aborted state.
C14_AbortOnlyOnInitFailure ==
    /\ InitFailed => pc = "aborted"
    /\ pc = "aborted" =>
          /\ events = <<[op |-> "esp_camera_init", arg |-> 0]>>
          /\ i = 0
          /\ frame = 0
          /\ ~models
          /\ fb = NULL
          /\ lent = {}
          /\ \A b \in HeapBlocks : heap[b] = "none"
          /\ ~ENABLED Next

C14_Witness ==
    /\ pc = "aborted"
    /\ InitFailed

\* C15 as stated: from the moment img224.data is freed, neither det_results
\* nor cls_results is still alive.
C15_ResultsDeadOnceImageFreed ==
    Count("free_img") = 1 => (~det_results.live /\ ~cls_results.live)

\* the calls that produce or read det_results or cls_results
ResultUses == Pos("detect") \cup Pos("recognize") \cup Pos("report")

\* C15, amended: det_results and cls_results are never produced or read
\* after img224.data is freed, and they do not survive the iteration: both
\* are destroyed when the loop body is left, which is after the free and the
\* delay and before the next esp_camera_fb_get.
C15_ResultsUnusedOnceImageFreed ==
    /\ Count("free_img") <= 1
    /\ Count("free_img") = 1 => \A n \in ResultUses : n < PosOf("free_img")
    /\ heap[IMG_BUF] # "live" => pc \notin {"check_det", "report"}
    /\ pc \in {"acquire", "decode", "capture_failed", "fb_return", "check_decode",
               "free_rgb", "check_img"} =>
          (~det_results.live /\ ~cls_results.live)
    /\ pc \in {"no_hand_delay", "pace"} =>
          (det_results.live /\ heap[IMG_BUF] = "freed")
    /\ cls_results.live => det_results.live

C15_Witness ==
    /\ pc = "pace"
    /\ det_results.live
    /\ cls_results.live
    /\ cls_results.n > 0
    /\ Count("report") = cls_results.n
    /\ heap[IMG_BUF] = "freed"

InWarmup == pc \in {"warm_get", "warm_return", "warm_delay"}

\* what holds in every state of the warm-up
WarmupState ==
    /\ i \in 0 .. 5
    /\ models => i = 5
    /\ InWarmup =>
          /\ ~models
          /\ frame = 0
          /\ rgb = NoImage /\ img224 = NoImage
          /\ \A b \in HeapBlocks : heap[b] = "none"
          /\ \A n \in DOMAIN events :
                events[n].op \in {"esp_camera_init", "fb_get", "fb_get_null",
                                  "fb_return", "delay"}
    /\ pc \in {"warm_return", "warm_delay"} =>
          /\ i < 5
          /\ Count("fb_get") + Count("fb_get_null") = 1
    /\ pc = "warm_return" => lent = (IF fb = NULL THEN {} ELSE {fb})
    /\ pc = "warm_delay" =>
          /\ lent = {}
          /\ Count("fb_return") = Count("fb_get")
          /\ Count("fb_return_null") = 0

\* what every step of the warm-up does
WarmupStep ==
    /\ (pc = "warm_get" /\ pc' = "warm_return") => (i < 5 /\ i' = i)
    /\ pc = "warm_return" => (pc' = "warm_delay" /\ i' = i)
    /\ pc = "warm_delay" => (pc' = "warm_get" /\ i' = i + 1)
    /\ (pc = "warm_get" /\ pc' # "warm_return") => (i = 5 /\ pc' = "acquire")
    /\ i' # i => pc = "warm_delay"
    /\ pc' = "acquire" => i' = 5

\* C16: after a successful camera initialization and before the first
\* main-loop iteration exactly 5 acquisitions are attempted; a frame acquired
\* in warm-up is returned before the next acquisition and is never decoded,
\* preprocessed or passed to inference; a failed warm-up acquisition is
\* skipped without a return and without aborting, and still counts as one of
\* the 5 attempts.
C16_WarmupFiveAttempts == [] WarmupState /\ [][WarmupStep]_vars

C16_Witness ==
    /\ pc = "acquire"
    /\ frame = 0
    /\ i = 5
    /\ Count("fb_get_null") = 1
    /\ Count("fb_return") = 0

\* the place of each call in the fixed order of one iteration
StageOf(op) ==
    CASE op = "fb_get" -> 1
      [] op = "fb_get_null" -> 1
      [] op = "decode" -> 2
      [] op = "fb_return" -> 3
      [] op = "crop_resize_224" -> 4
      [] op = "malloc_spiram" -> 4
      [] op = "malloc_8bit" -> 4
      [] op = "read_pixels" -> 4
      [] op = "write_pixels" -> 4
      [] op = "free_rgb" -> 5
      [] op = "detect" -> 6
      [] op = "recognize" -> 7
      [] op = "warn_no_hand" -> 8
      [] op = "report" -> 8
      [] op = "free_img" -> 9
      [] op = "delay" -> 10
      [] OTHER -> 0

\* the events of a main-loop iteration are in the trace
InMainLoop == models /\ frame >= 1

\* C17: within one main-loop iteration the calls occur in the fixed order
\* acquire, decode, return frame, preprocess, free raw image, localize,
\* classify, report, free normalized image, pace.  The frame is returned
\* after the decode call and before its result is tested or preprocessing
\* begins; hand_detect->run is called only on a non-null, fully written
\* img224 with the frame returned and rgb.data freed; gesture->recognize is
\* called at most once, only after hand_detect->run returned a non-empty
\* list for the same image; every report precedes the free of img224.data.
C17_StageOrder ==
    InMainLoop =>
        /\ \A n \in DOMAIN events : \A m \in DOMAIN events :
              n < m => StageOf(events[n].op) <= StageOf(events[m].op)
        /\ \A op \in {"fb_get", "decode", "fb_return", "crop_resize_224",
                      "free_rgb", "detect", "recognize", "free_img", "delay"} :
              Count(op) <= 1
        /\ Count("fb_return") = 1 => Count("decode") = 1
        /\ pc \in {"check_decode", "free_rgb", "check_img"} =>
              (Count("fb_return") = 1 /\ lent = {})
        /\ Count("crop_resize_224") = 1 => Count("fb_return") = 1
        /\ Count("detect") = 1 =>
              /\ Count("write_pixels") = 1
              /\ events[PosOf("write_pixels")].arg = 224 * 224
              /\ Count("fb_return") = 1
              /\ Count("free_rgb") = 1
              /\ lent = {}
              /\ heap[RGB_BUF] = "freed"
        /\ pc = "check_det" =>
              /\ img224.data # NULL
              /\ heap[IMG_BUF] = "live"
              /\ events[Len(events)].op = "detect"
        /\ Count("recognize") = 1 =>
              /\ Count("detect") = 1
              /\ Count("warn_no_hand") = 0
              /\ pc # "acquire" => (det_results.live /\ det_results.n > 0)
        /\ pc = "report" => heap[IMG_BUF] = "live"
        /\ Count("report") > 0 => Count("recognize") = 1
        /\ Count("free_img") = 1 =>
              \A n \in Pos("report") : n < PosOf("free_img")

C17_Witness ==
    /\ InMainLoop
    /\ pc = "next_iter"
    /\ Count("report") = 2
    /\ Count("free_img") = 1
    /\ Len(Delays) = 1

\* the iteration in the trace has ended
IterationOver == InMainLoop /\ pc \in {"next_iter", "acquire"}

\* the five outcomes of an iteration, read from its calls
CaptureFailure == Count("fb_get_null") = 1
DecodeFailure == Count("decode") = 1 /\ Count("crop_resize_224") = 0
AllocFailure == Count("crop_resize_224") = 1 /\ Count("write_pixels") = 0
EmptyDetection == Count("warn_no_hand") = 1
Classified == Count("recognize") = 1

\* the milliseconds of the delays of the iteration, in order
DelayMs == [n \in DOMAIN Delays |-> Delays[n].arg]

\* C18: a main-loop iteration applies at most one delay, fixed by its
\* outcome: 100 ms after a failed capture, 100 ms after a failed allocation,
\* 300 ms after an empty detection, 2000 ms after a classification and none
\* after a decode failure, which is the only outcome followed by the next
\* acquisition without a delay.
C18_OneDelayPerOutcome ==
    /\ InMainLoop => Len(Delays) <= 1
    /\ IterationOver =>
          /\ CaptureFailure => (DelayMs = <<100>> /\ ~DecodeFailure /\ ~AllocFailure
                                /\ ~EmptyDetection /\ ~Classified)
          /\ DecodeFailure => (DelayMs = <<>> /\ ~AllocFailure /\ ~EmptyDetection
                               /\ ~Classified)
          /\ AllocFailure => (DelayMs = <<100>> /\ ~EmptyDetection /\ ~Classified)
          /\ EmptyDetection => (DelayMs = <<300>> /\ ~Classified)
          /\ Classified => DelayMs = <<2000>>
          /\ CaptureFailure \/ DecodeFailure \/ AllocFailure \/ EmptyDetection
                \/ Classified
          /\ DelayMs = <<>> <=> DecodeFailure
          /\ DelayMs # <<>> => events[Len(events)].op = "delay"

C18_Witness ==
    /\ IterationOver
    /\ pc = "acquire"
    /\ DecodeFailure
    /\ Count("free_rgb") = 1
    /\ DelayMs = <<>>

\* the log lines of the iteration that carry the frame index
IndexedLogs == Pos("report") \cup Pos("warn_no_hand")

\* every log line of the iteration carries the current frame index, which is
\* at least 1 inside the loop body
FrameIndexState ==
    /\ frame >= 0
    /\ \A n \in IndexedLogs : events[n].arg = frame
    /\ (models /\ pc # "acquire") => frame >= 1

\* frame changes only at the top of the loop, by exactly one, whether or not
\* the capture that follows succeeds; the rest of the iteration keeps it
FrameIndexStep ==
    /\ pc = "acquire" => frame' = frame + 1
    /\ (pc = "acquire" /\ pc' = "capture_failed") => frame' = frame + 1
    /\ (models /\ pc # "acquire") => frame' = frame
    /\ (pc' = "acquire" /\ pc # "next_iter") => frame' = 0

\* C19: the frame index is incremented exactly once at the start of every
\* main-loop iteration, also of those that end in a capture, decode or
\* allocation failure; all reports of one iteration carry that index, so the
\* indices reported grow strictly from one iteration to the next, and the
\* index counts iterations, not captured frames.
C19_FrameIndexCountsIterations == [] FrameIndexState /\ [][FrameIndexStep]_vars

C19_Witness ==
    /\ pc = "report"
    /\ frame = 2
    /\ Count("report") = 2
    /\ \A n \in Pos("report") : events[n].arg = 2

====
